---- MODULE Spec2Model ----
(***************************************************************************)
(* Tape transport and capture engine of tape-monkey (mdeeds/pinch-take).   *)
(*                                                                         *)
(* Units.  The frame clock counts sample frames.  Times that the code     *)
(* carries in seconds are carried here as exact rationals:                 *)
(*   - arguments of startPlayback / setLatencyCompensation are given in    *)
(*     half frames (suffix H): t seconds = tH / (2 * SampleRate);          *)
(*   - TransportEvent.audioCtxTimeS is given in tenths of a frame          *)
(*     (suffix T): t seconds = tT / (10 * SampleRate);                     *)
(* so that Math.round and Math.floor are real conversions.                 *)
(* A sample is identified by 1 + the capture frame it was taken at; 0 is   *)
(* the silence a fresh buffer holds.                                       *)
(***************************************************************************)
EXTENDS Integers, Sequences, FiniteSets, TLC

\* ------------------------------------------------------------------ bounds
SampleRate == 40         \* frames per second of the audio context
RenderQuantum == 20      \* frames per render quantum (128 in a browser)
MaxBatches == 2          \* batches the worker may fill in one run
MaxTracks == 2           \* tracks that may be created
MaxPasses == 1           \* startPlayback calls in one run
MaxObservers == 2        \* waitForEnd calls in one run
MaxSubscribers == 2      \* onTransportEvent calls in one run
MaxMessages == 3         \* messages the click generator handles in one run
MaxClickBlocks == 8      \* render blocks of the click generator in one run

\* ------------------------------------------------------- program constants
MAX_TRACK_LENGTH_S == 300
QuantaPerBatch == 4
metronomeDelayTenths == 1     \* metronomeDelayS = 0.1 s

bufferSize == RenderQuantum * QuantaPerBatch
TrackLength == SampleRate * MAX_TRACK_LENGTH_S

\* ------------------------------------------------------------ conversions
\* Math.round(n / d) for d > 0: halves round towards +Infinity.
RoundDiv(n, d) == (2 * n + d) \div (2 * d)
\* Math.floor(n / d) for d > 0.
FloorDiv(n, d) == n \div d
\* Math.round(tS * sampleRate) for tS given in half frames.
FramesOfH(tH) == RoundDiv(tH, 2)

None == <<>>
Some(v) == <<v>>
IsSome(o) == o # <<>>
Val(o) == o[1]

Max(a, b) == IF a >= b THEN a ELSE b
Min(a, b) == IF a <= b THEN a ELSE b

VARIABLES
  clock,                  \* audioCtx.currentTime * sampleRate (currentFrame)
  tempo, beatsPerMeasure, \* SongContext
  tracks,                 \* TapeDeck.#tracks
  tapeZeroFrame, punchInTapeFrame, punchOutTapeFrame, stopTapeFrame,
  armedTrack,
  onTransportEventCallbacks,
  resolveStops,
  batchStartFrame,        \* first frame of the next batch the worker emits
  latencyCompensationFrames,
  onSamples,              \* RecordHandler.onSamples (0 is the deck)
  handed,                 \* the last batch as handed on, where a run logs it
  processor,              \* RecordProcessor: its fields and its arrays
  posted,                 \* messages the RecordProcessor has posted
  metronomeNode,          \* MetronomeHandler.#metronomeNode: none, or the
                          \* messages posted to its port and not yet handled
  observers,              \* per waitForEnd promise: times it was resolved
  transport,              \* last transport command executed
  passes,                 \* startPlayback calls so far
  lastPass,               \* the last startPlayback, where a session logs it
  call,                   \* the most recent call and what it did
  \* MetronomeProcessor (the click generator)
  _isPlaying, _beatsPerMeasure, _beatCount,
  _nextTickFrame,         \* in units of 1 / TickScale frame
  _framesInTick, _currentTickFrequency, _bpm, _level,
  messages,               \* messages the processor has handled
  lastStart,              \* the last 'start': its anchor, when, what it found
  firstTick,              \* the first tick begun since the last 'start'
  block                   \* the last message or block and what it produced

deckVars == <<tracks, tapeZeroFrame, punchInTapeFrame, punchOutTapeFrame,
              stopTapeFrame, armedTrack, onTransportEventCallbacks,
              resolveStops, observers, transport, passes, lastPass>>
clickVars == <<_isPlaying, _beatsPerMeasure, _beatCount, _nextTickFrame,
               _framesInTick, _currentTickFrequency, _bpm, _level, messages,
               lastStart, firstTick, block>>
vars == <<clock, tempo, beatsPerMeasure, deckVars, batchStartFrame,
          latencyCompensationFrames, onSamples, handed, processor, posted,
          metronomeNode,
          call, clickVars>>

\* The deck may be constructed at any point of the running audio clock:
\* early, at the start of the batch the worker is filling, or late enough
\* for tape times near the end of a track, one quantum into the batch.
LateBase == RenderQuantum * ((TrackLength \div RenderQuantum) + 1)
ClockStarts == {<<0, 0>>, <<LateBase, RenderQuantum>>}
BatchesFilled ==
  (batchStartFrame - (IF batchStartFrame >= LateBase THEN LateBase ELSE 0))
    \div bufferSize

\* What is recorded of a call: its name and argument, the transport state
\* it found, the events it delivered (in order), the observers it resolved,
\* whether stop() ran in it, the range it wrote, whether it raised, its
\* result (a number or a name) and what it handed to the file manager.
NoCall == [op |-> "none", arg |-> <<>>, was |-> "none", events |-> <<>>,
           resolved |-> <<>>, stopped |-> FALSE, wrote |-> <<>>,
           threw |-> FALSE, ret |-> -1, name |-> <<>>, upload |-> <<>>]
Called(op, arg) == [NoCall EXCEPT !.op = op, !.arg = arg, !.was = transport]

\* -------------------------------------------------------------- the deck
NewTrack == [buffer |-> <<>>, sourceNode |-> <<>>, name |-> "",
             stats |-> <<>>]

Disconnected(ts) == [i \in DOMAIN ts |-> [ts[i] EXCEPT !.sourceNode = <<>>]]

\* new TrackStats(samples): the peak and the sum of squares of the whole
\* buffer (rmsDB and peakDB are functions of the two; maxRunningRmsDB,
\* read from the same samples, is left out). The sample a track holds at an
\* index is the input wave at the frame it was captured, 0 where nothing
\* was written; the wave takes the values -1, 0 and 1.
TrackStats(samples) ==
  LET loud == {i \in DOMAIN samples : ((samples[i] - 1) % 3) - 1 # 0}
  IN [peak |-> IF loud = {} THEN 0 ELSE 1,
      totalSumOfSquares |-> Cardinality(loud)]
\* stop(): for (const track of this.#tracks) track.stats = new TrackStats(..)
WithStats(ts) ==
  [i \in DOMAIN ts |-> [ts[i] EXCEPT !.stats = <<TrackStats(ts[i].buffer)>>]]

\* What a transport subscriber finds in the deck when it is called: the
\* mapping, the punch thresholds and the source each track holds.
Seen(zero, punchIn, punchOut, ts) ==
  [zero |-> zero, punchIn |-> punchIn, punchOut |-> punchOut,
   sources |-> [i \in DOMAIN ts |-> ts[i].sourceNode]]

\* for (const callback of callbacks) callback(event)
Broadcast(event, seen) ==
  [k \in 1..Len(onTransportEventCallbacks) |->
     [to |-> onTransportEventCallbacks[k], event |-> event, seen |-> seen]]

\* What is recorded of a message or a render block of the click generator:
\* for a block, the ticks begun in it (frame, beat index, accented) and the
\* frames in which it put out a tick sample rather than silence.
NoBlock == [op |-> "none", ticks |-> <<>>, sound |-> {}]

\* MetronomeProcessor constructor (_level in tenths).
ClickInit ==
  /\ _isPlaying = FALSE
  /\ _beatsPerMeasure = 4
  /\ _beatCount = 0
  /\ _nextTickFrame = 0
  /\ _framesInTick = -1
  /\ _currentTickFrequency = 0
  /\ _bpm = 120
  /\ _level = 5
  /\ messages = 0
  /\ lastStart = <<>>
  /\ firstTick = <<>>
  /\ block = NoBlock

\* RecordProcessor constructor. buffer names a Float32Array by its place in
\* arrays, which holds the contents of every array the processor has made.
Zeros(n) == [k \in 1..n |-> 0]
NewProcessor ==
  [buffer |-> 1, arrays |-> <<Zeros(bufferSize)>>, framesCollected |-> 0,
   batchStartFrame |-> 0, batchStartTime |-> 0,
   tmpBuffer |-> Zeros(RenderQuantum)]

\* SongContext and TapeDeck constructors, RecordHandler fields, and the
\* RecordProcessor.
DeckInit ==
  /\ tempo = 120
  /\ beatsPerMeasure = 4
  /\ tracks = <<>>
  /\ tapeZeroFrame = -1
  /\ punchInTapeFrame = -1
  /\ punchOutTapeFrame = -1
  /\ stopTapeFrame = -1
  /\ armedTrack = -1
  /\ onTransportEventCallbacks = <<>>
  /\ resolveStops = <<>>
  /\ latencyCompensationFrames = 0
  /\ onSamples = <<0>>
  /\ handed = <<>>
  /\ processor = NewProcessor
  /\ posted = <<>>
  /\ metronomeNode = None
  /\ observers = <<>>
  /\ transport = "none"
  /\ passes = 0
  /\ lastPass = None
  /\ call = NoCall

Init ==
  /\ \E s \in ClockStarts :
       clock = s[1] + s[2] /\ batchStartFrame = s[1]
  /\ ClickInit
  /\ DeckInit

OnTransportEvent ==
  /\ Len(onTransportEventCallbacks) < MaxSubscribers
  /\ transport = "none"
  /\ onTransportEventCallbacks' =
       Append(onTransportEventCallbacks, Len(onTransportEventCallbacks) + 1)
  /\ call' = Called("onTransportEvent", <<>>)
  /\ UNCHANGED <<clock, tempo, beatsPerMeasure, tracks, tapeZeroFrame,
                 punchInTapeFrame, punchOutTapeFrame, stopTapeFrame,
                 armedTrack, resolveStops, observers, transport, passes, lastPass,
                 batchStartFrame, latencyCompensationFrames, onSamples, handed, processor, posted, metronomeNode>>
  /\ UNCHANGED clickVars

\* ------------------------------------------------------- the click proxy
\* MetronomeHandler. Its constructor subscribes #handleTransportEvent to the
\* deck (subscriber 0) and create() makes the node and subscribes
\* updateTempo to the song.
MetronomeHears ==
  \E k \in DOMAIN onTransportEventCallbacks :
    onTransportEventCallbacks[k] = 0
\* this.#metronomeNode.port.postMessage(..)
PostMessage(node, ms) == IF IsSome(node) THEN Some(Val(node) \o ms) ELSE node
\* { method: 'set', detail: { tempo, beatsPerMeasure } }
SetMessage(t, m) ==
  [method |-> "set", detail |-> [tempo |-> t, beatsPerMeasure |-> m]]
\* start(position): 'set' with the song's values, then 'start' with the
\* position taken from the event. song notes the values the song had when
\* the message was posted; it is not part of the message.
StartMessages_StartFirst(event) ==
  << [method |-> "start",
      detail |-> [audioCtxTimeT |-> event.audioCtxTimeT,
                  tapeTimeH |-> event.tapeTimeH],
      song |-> <<tempo, beatsPerMeasure>>],
     SetMessage(tempo, beatsPerMeasure) >>
StartMessages(event) ==
  << SetMessage(tempo, beatsPerMeasure),
     [method |-> "start",
      detail |-> [audioCtxTimeT |-> event.audioCtxTimeT,
                  tapeTimeH |-> event.tapeTimeH],
      song |-> <<tempo, beatsPerMeasure>>] >>
\* #handleTransportEvent
HandleTransportEvent(event) ==
  IF event.action = "play" THEN StartMessages(event)
  ELSE IF event.action = "stop" THEN <<[method |-> "stop"]>>
  ELSE <<>>
HeardBy(node, event) ==
  IF MetronomeHears THEN PostMessage(node, HandleTransportEvent(event))
  ELSE node

\* MetronomeHandler.create
Create ==
  /\ metronomeNode = None
  /\ transport = "none"
  /\ onTransportEventCallbacks' = Append(onTransportEventCallbacks, 0)
  /\ metronomeNode' = Some(<<>>)
  /\ call' = Called("create", <<>>)
  /\ UNCHANGED <<clock, tempo, beatsPerMeasure, tracks, tapeZeroFrame,
                 punchInTapeFrame, punchOutTapeFrame, stopTapeFrame,
                 armedTrack, resolveStops, observers, transport, passes,
                 lastPass, batchStartFrame, latencyCompensationFrames,
                 onSamples, handed, processor, posted>>
  /\ UNCHANGED clickVars

\* #resolveWaitingStops: the observers it resolves and what it leaves pending.
StopsLeftPending_Kept(stops) == stops
StopsLeftPending(stops) == <<>>
ResolvedBy(obs, stops) ==
  [o \in DOMAIN obs |->
     obs[o] + Cardinality({k \in DOMAIN stops : stops[k] = o})]

\* TapeDeck.stop: the event it broadcasts.
StopEvent ==
  [action |-> "stop",
   audioCtxTimeT |-> clock * 10,
   tapeTimeH |-> 2 * (clock - tapeZeroFrame)]

SeenAtStop == Seen(-1, -1, -1, Disconnected(tracks))
StopDelivered_OnlyWhileRolling ==
  IF tapeZeroFrame = -1 THEN <<>> ELSE Broadcast(StopEvent, SeenAtStop)
StopDelivered == Broadcast(StopEvent, SeenAtStop)

Stop ==
  /\ tracks' = WithStats(Disconnected(tracks))
  /\ tapeZeroFrame' = -1
  /\ punchInTapeFrame' = -1
  /\ punchOutTapeFrame' = -1
  /\ resolveStops' = StopsLeftPending(resolveStops)
  /\ observers' = ResolvedBy(observers, resolveStops)
  /\ transport' = "stop"
  /\ call' = [Called("stop", <<>>) EXCEPT !.events = StopDelivered,
                                           !.resolved = resolveStops,
                                           !.stopped = TRUE]
  /\ metronomeNode' = HeardBy(metronomeNode, StopEvent)
  /\ UNCHANGED <<clock, tempo, beatsPerMeasure, stopTapeFrame, armedTrack,
                 onTransportEventCallbacks, passes, lastPass, batchStartFrame,
                 latencyCompensationFrames, onSamples, handed, processor, posted>>
  /\ UNCHANGED clickVars

WaitForEnd ==
  /\ Len(observers) < MaxObservers
  /\ observers' = Append(observers, 0)
  /\ resolveStops' = Append(resolveStops, Len(observers) + 1)
  /\ call' = [Called("waitForEnd", <<>>) EXCEPT !.ret = Len(observers) + 1]
  /\ UNCHANGED <<clock, tempo, beatsPerMeasure, tracks, tapeZeroFrame,
                 punchInTapeFrame, punchOutTapeFrame, stopTapeFrame,
                 armedTrack, onTransportEventCallbacks, transport, passes, lastPass,
                 batchStartFrame, latencyCompensationFrames, onSamples, handed, processor, posted, metronomeNode>>
  /\ UNCHANGED clickVars

\* TapeDeck.arm: the index armed and the track list it leaves.
ArmedIndex_SkipsOne(trackNumber) ==
  IF IsSome(trackNumber) THEN Val(trackNumber) ELSE Len(tracks) + 1
ArmedIndex(trackNumber) ==
  IF IsSome(trackNumber) THEN Val(trackNumber) ELSE Len(tracks)
GrownTracks_Short(trackNumber) ==
  IF Len(tracks) < trackNumber
    THEN tracks \o [k \in 1..(trackNumber - Len(tracks)) |-> NewTrack]
    ELSE tracks
GrownTracks(trackNumber) ==
  IF Len(tracks) <= trackNumber
    THEN tracks \o [k \in 1..(trackNumber + 1 - Len(tracks)) |-> NewTrack]
    ELSE tracks

ArmArgs == {None} \cup {Some(k) : k \in 0..(MaxTracks - 1)}

Arm(trackNumber) ==
  /\ ArmedIndex(trackNumber) < MaxTracks
  /\ tracks' = GrownTracks(ArmedIndex(trackNumber))
  /\ armedTrack' = ArmedIndex(trackNumber)
  /\ call' = [Called("arm", trackNumber) EXCEPT
                !.ret = ArmedIndex(trackNumber)]
  /\ UNCHANGED <<clock, tempo, beatsPerMeasure, tapeZeroFrame,
                 punchInTapeFrame, punchOutTapeFrame, stopTapeFrame,
                 onTransportEventCallbacks, resolveStops, observers,
                 transport, passes, lastPass, batchStartFrame,
                 latencyCompensationFrames, onSamples, handed, processor, posted, metronomeNode>>
  /\ UNCHANGED clickVars

\* startPlayback: playbackStartTimeS * sampleRate as the fraction
\* PlaybackStartN / PlaybackStartD (currentTime + 0.1 s + one bar).
PlaybackStartN ==
  clock * 10 * tempo + SampleRate * metronomeDelayTenths * tempo
    + beatsPerMeasure * 600 * SampleRate
PlaybackStartD == 10 * tempo

PunchFrame(pH) == IF IsSome(pH) THEN FramesOfH(Val(pH)) ELSE -1
TapeZeroFor(startH) ==
  RoundDiv(PlaybackStartN, PlaybackStartD) - FramesOfH(startH)
StopFrameFor(stopH, loopStartH) ==
  IF stopH >= 0 /\ ~IsSome(loopStartH) THEN FramesOfH(stopH) ELSE -1
IsRecordingFor(punchInH) == PunchFrame(punchInH) # -1 /\ armedTrack # -1

PlayEvent(startH) ==
  [action |-> "play",
   audioCtxTimeT |-> clock * 10 + SampleRate * metronomeDelayTenths,
   tapeTimeH |-> startH]

\* createBufferSource() ... start(): a source is known by the call that
\* created it and counts the times it was started.
NewSource(a, rec) ==
  Some([pass |-> passes + 1, starts |-> 1,
        whenN |-> PlaybackStartN, whenD |-> PlaybackStartD,
        offsetH |-> a.startH,
        loop |-> IsSome(a.loopStartH) /\ a.stopH >= 0 /\ ~rec])

\* The sources startPlayback leaves: none on the armed track, a fresh one
\* on every other track.
SourcesStarted_KeepsHeld(a, armed, rec) ==
  [i \in DOMAIN tracks |->
     [tracks[i] EXCEPT !.sourceNode =
        IF i - 1 = armed THEN None
        ELSE IF IsSome(@) THEN Some([Val(@) EXCEPT !.starts = @ + 1])
        ELSE NewSource(a, rec)]]
SourcesStarted(a, armed, rec) ==
  [i \in DOMAIN tracks |->
     [tracks[i] EXCEPT !.sourceNode =
        IF i - 1 = armed THEN None ELSE NewSource(a, rec)]]

\* Arguments of startPlayback, in half frames: playback only (open-ended,
\* bounded, looping), recording with a punch window that batches straddle,
\* recording with punch-in only, and recording up to the end of the track.
NoStopH == -2 * SampleRate        \* stopTimeS = -1
EndH == 2 * TrackLength           \* TapeDeck.MAX_TRACK_LENGTH_S as a time
PassArgs ==
  { [startH |-> 0, stopH |-> NoStopH, punchInH |-> None, punchOutH |-> None,
     loopStartH |-> None],
    [startH |-> 0, stopH |-> 60, punchInH |-> None, punchOutH |-> None,
     loopStartH |-> None],
    [startH |-> 0, stopH |-> 60, punchInH |-> None, punchOutH |-> None,
     loopStartH |-> Some(0)],
    [startH |-> 4, stopH |-> 400, punchInH |-> Some(41),
     punchOutH |-> Some(300), loopStartH |-> None],
    [startH |-> 0, stopH |-> NoStopH, punchInH |-> Some(12),
     punchOutH |-> None, loopStartH |-> None],
    [startH |-> EndH - 72, stopH |-> EndH, punchInH |-> Some(EndH - 72),
     punchOutH |-> Some(EndH), loopStartH |-> None] }

\* startPlayback: the Play event goes out last, after the fields and the
\* sources are set.
\* if (!isRecording) this.#armedTrack = -1
ArmedAfter_Kept(a) == armedTrack
ArmedAfter(a) == IF IsRecordingFor(a.punchInH) THEN armedTrack ELSE -1
PlayDelivered_BeforeSetup(a) ==
  Broadcast(PlayEvent(a.startH),
            Seen(tapeZeroFrame, punchInTapeFrame, punchOutTapeFrame, tracks))
PlayDelivered(a) ==
  Broadcast(PlayEvent(a.startH),
            Seen(TapeZeroFor(a.startH), PunchFrame(a.punchInH),
                 PunchFrame(a.punchOutH),
                 SourcesStarted(a, ArmedAfter(a),
                                IsRecordingFor(a.punchInH))))

StartPlayback(a) ==
  /\ passes' = passes + 1
  /\ punchInTapeFrame' = PunchFrame(a.punchInH)
  /\ punchOutTapeFrame' = PunchFrame(a.punchOutH)
  /\ tapeZeroFrame' = TapeZeroFor(a.startH)
  /\ stopTapeFrame' = StopFrameFor(a.stopH, a.loopStartH)
  /\ armedTrack' = ArmedAfter(a)
  /\ tracks' = SourcesStarted(a, ArmedAfter(a), IsRecordingFor(a.punchInH))
  /\ transport' = "play"
  /\ call' = [Called("startPlayback", <<a>>) EXCEPT
                !.events = PlayDelivered(a)]
  /\ metronomeNode' = HeardBy(metronomeNode, PlayEvent(a.startH))
  /\ UNCHANGED <<clock, tempo, beatsPerMeasure, onTransportEventCallbacks,
                 resolveStops, observers, batchStartFrame,
                 latencyCompensationFrames, onSamples, handed, processor, posted>>
  /\ UNCHANGED clickVars

\* ---------------------------------------------------------- #handleSamples
\* The batch the bridge hands on: data.startFrame after compensation.
AdjustedStart_Uncompensated == batchStartFrame
AdjustedStart == batchStartFrame - latencyCompensationFrames

\* RecordProcessor.process: the message posted for the batch that starts
\* at batchStartFrame. The input is a full-scale wave: the sample captured
\* at frame f is Signal(f), one of -1, 0, 1. samples names the buffer by the
\* stamp of its first sample (capture frame + 1), rms is in tenths, rounded
\* down, and startTimeF is startTimeS * sampleRate.
Signal(f) == (f % 3) - 1
BatchSample(i) == Signal(batchStartFrame + i)
Abs(x) == IF x < 0 THEN -x ELSE x
\* sumOfSquares: the square of a sample is 1 unless the sample is 0.
SumOfSquares ==
  Cardinality({i \in 0..(bufferSize - 1) : BatchSample(i) # 0})
\* maxPeak, and the first index that holds it (absSample > maxPeak).
MaxPeak ==
  LET levels == {Abs(BatchSample(i)) : i \in 0..(bufferSize - 1)}
  IN CHOOSE p \in levels : \A q \in levels : q <= p
Posted ==
  LET sum == SumOfSquares
      maxPeak == MaxPeak
  IN
  [samples |-> batchStartFrame + 1,
   rms |-> CHOOSE r \in 0..10 :
             /\ r * r * bufferSize <= 100 * sum
             /\ (r + 1) * (r + 1) * bufferSize > 100 * sum,
   peak |-> maxPeak,
   maxPeakIndex |-> CHOOSE i \in 0..(bufferSize - 1) :
                      /\ Abs(BatchSample(i)) = maxPeak
                      /\ \A j \in 0..(i - 1) : Abs(BatchSample(j)) < maxPeak,
   startFrame |-> batchStartFrame,
   startTimeF |-> batchStartFrame]

\* RecordHandler.#handleMessage: latency compensation applied to the batch.
Compensated(data) ==
  [data EXCEPT !.startFrame = @ - latencyCompensationFrames,
               !.startTimeF = @ - latencyCompensationFrames]

\* for (const callback of this.onSamples) callback(event.data): the loop
\* ends at a subscriber that raises.
DeckAt == CHOOSE k \in DOMAIN onSamples : onSamples[k] = 0
HandedOn(threw) ==
  LET data == Compensated(Posted)
  IN [k \in 1..(IF threw THEN DeckAt ELSE Len(onSamples)) |->
        [to |-> onSamples[k], data |-> data]]

Gated_OnlyArm == armedTrack < 0
Gated_IgnoresArm == tapeZeroFrame <= 0 \/ punchInTapeFrame < 0
Gated == armedTrack < 0 \/ tapeZeroFrame <= 0 \/ punchInTapeFrame < 0

StartTape == AdjustedStart - tapeZeroFrame
EndTape == StartTape + bufferSize

\* if (this.#stopTapeFrame >= 0 && endTapeFrame >= this.#stopTapeFrame)
ReachesStop == stopTapeFrame >= 0 /\ EndTape >= stopTapeFrame

\* The punch thresholds the two early returns read (stop() has reset them).
PunchInRead == IF ReachesStop THEN -1 ELSE punchInTapeFrame
PunchOutRead == IF ReachesStop THEN -1 ELSE punchOutTapeFrame

Dropped ==
  \/ EndTape < PunchInRead
  \/ PunchOutRead >= 0 /\ StartTape > PunchOutRead

\* data.samples.subarray(-startTapeFrame): samples cut from the front.
FrontCut_None == IF StartTape < 0 THEN 0 ELSE 0
FrontCut == IF StartTape < 0 THEN Min(-StartTape, bufferSize) ELSE 0
WriteStart == IF StartTape < 0 THEN 0 ELSE StartTape
WriteLen == bufferSize - FrontCut

\* trackChannelData.set(samples, offset) raises RangeError when the samples
\* do not fit; #setBufferData raises on a bad track number.
SetThrows ==
  \/ armedTrack < 0 \/ armedTrack >= Len(tracks)
  \/ WriteStart + WriteLen > TrackLength

Written(buf) ==
  [i \in DOMAIN buf \cup (WriteStart .. (WriteStart + WriteLen - 1)) |->
     IF i >= WriteStart /\ i < WriteStart + WriteLen
       THEN batchStartFrame + FrontCut + (i - WriteStart) + 1
       ELSE buf[i]]

HandleSamples ==
  IF Gated
    THEN /\ call' = Called("handleSamples", <<AdjustedStart>>)
         /\ UNCHANGED <<deckVars, metronomeNode>>
    ELSE
      LET afterStop == IF ReachesStop THEN WithStats(Disconnected(tracks))
                                      ELSE tracks
          writes == ~Dropped /\ ~SetThrows
      IN
      /\ tracks' = IF writes
                     THEN [afterStop EXCEPT ![armedTrack + 1].buffer =
                             Written(@)]
                     ELSE afterStop
      /\ tapeZeroFrame' = IF ReachesStop THEN -1 ELSE tapeZeroFrame
      /\ punchInTapeFrame' = PunchInRead
      /\ punchOutTapeFrame' = PunchOutRead
      /\ resolveStops' = IF ReachesStop THEN StopsLeftPending(resolveStops)
                                        ELSE resolveStops
      /\ observers' = IF ReachesStop THEN ResolvedBy(observers, resolveStops)
                                     ELSE observers
      /\ transport' = IF ReachesStop THEN "stop" ELSE transport
      /\ metronomeNode' = IF ReachesStop
                            THEN HeardBy(metronomeNode, StopEvent)
                            ELSE metronomeNode
      /\ call' = [Called("handleSamples", <<AdjustedStart>>) EXCEPT
                    !.stopped = ReachesStop,
                    !.events = IF ReachesStop THEN StopDelivered ELSE <<>>,
                    !.resolved = IF ReachesStop THEN resolveStops ELSE <<>>,
                    !.wrote = IF writes
                                THEN <<armedTrack, WriteStart,
                                       WriteStart + WriteLen>>
                                ELSE <<>>,
                    !.threw = ~Dropped /\ SetThrows]
      /\ UNCHANGED <<stopTapeFrame, armedTrack, onTransportEventCallbacks,
                     passes, lastPass>>

\* The render thread fills the next batch (QuantaPerBatch quanta) and
\* RecordHandler.#handleMessage hands it to the subscribers, the deck
\* among them.
RenderBatch ==
  /\ BatchesFilled < MaxBatches
  /\ clock' = clock + bufferSize
  /\ batchStartFrame' = batchStartFrame + bufferSize
  /\ HandleSamples
  /\ UNCHANGED <<tempo, beatsPerMeasure, latencyCompensationFrames, onSamples,
                 processor, posted>>
  /\ UNCHANGED clickVars

\* ------------------------------------------------------ the click generator
\* Tempos the song may take and the scale that makes every framesPerBeat
\* (60 / bpm * sampleRate) a whole number of 1 / TickScale frames.
Tempos == {120, 70}
TickScale ==
  CHOOSE n \in 1..(120 * 70) :
    /\ \A t \in Tempos : n % t = 0
    /\ \A m \in 1..(n - 1) : \E t \in Tempos : m % t # 0
FramesPerBeat(bpmValue) == (60 * SampleRate * TickScale) \div bpmValue

\* this.port.onmessage: the message handled leaves the port, where the
\* port is modelled.
Received(node) ==
  IF IsSome(node) /\ Val(node) # <<>> THEN Some(Tail(Val(node))) ELSE node

\* handleMessage 'set': detail.x || this._x
OrKeep(value, kept) == IF value # 0 THEN value ELSE kept

ClickSet_Reschedule(t, m, l) ==
  /\ messages < MaxMessages
  /\ messages' = messages + 1
  /\ _bpm' = OrKeep(t, _bpm)
  /\ _beatsPerMeasure' = OrKeep(m, _beatsPerMeasure)
  /\ _level' = IF IsSome(l) THEN Val(l) ELSE _level
  /\ _nextTickFrame' = IF _isPlaying /\ _bpm' # _bpm
                         THEN clock * TickScale + FramesPerBeat(_bpm')
                         ELSE _nextTickFrame
  /\ block' = [NoBlock EXCEPT !.op = "set"]
  /\ UNCHANGED <<_isPlaying, _beatCount, _framesInTick,
                 _currentTickFrequency, lastStart, firstTick>>
  /\ UNCHANGED <<clock, tempo, beatsPerMeasure, deckVars, batchStartFrame,
                 latencyCompensationFrames, onSamples, handed, processor,
                 posted, call>>
  /\ metronomeNode' = Received(metronomeNode)

ClickSet(t, m, l) ==
  /\ messages < MaxMessages
  /\ messages' = messages + 1
  /\ _bpm' = OrKeep(t, _bpm)
  /\ _beatsPerMeasure' = OrKeep(m, _beatsPerMeasure)
  /\ _level' = IF IsSome(l) THEN Val(l) ELSE _level
  /\ block' = [NoBlock EXCEPT !.op = "set"]
  /\ lastStart' = IF lastStart # <<>> /\ OrKeep(m, _beatsPerMeasure)
                                          # _beatsPerMeasure
                    THEN <<[lastStart[1] EXCEPT !.measureKept = FALSE]>>
                    ELSE lastStart
  /\ UNCHANGED <<_isPlaying, _beatCount, _nextTickFrame, _framesInTick,
                 _currentTickFrequency, firstTick>>
  /\ UNCHANGED <<clock, tempo, beatsPerMeasure, deckVars, batchStartFrame,
                 latencyCompensationFrames, onSamples, handed, processor,
                 posted, call>>
  /\ metronomeNode' = Received(metronomeNode)

ClickStop ==
  /\ messages < MaxMessages
  /\ messages' = messages + 1
  /\ _isPlaying' = FALSE
  /\ block' = [NoBlock EXCEPT !.op = "stop"]
  /\ UNCHANGED <<_beatsPerMeasure, _beatCount, _nextTickFrame, _framesInTick,
                 _currentTickFrequency, _bpm, _level, lastStart, firstTick>>
  /\ UNCHANGED <<clock, tempo, beatsPerMeasure, deckVars, batchStartFrame,
                 latencyCompensationFrames, onSamples, handed, processor,
                 posted, call>>
  /\ metronomeNode' = Received(metronomeNode)

\* _start: Math.floor(audioContextTimeS * sampleRate), the time in tenths
\* of a frame.
StartFrame(timeT) == FloorDiv(timeT, 10)
\* Math.floor(framesSinceStart / framesPerBeat) + 1
NumberOfBeatsMissed(startFrame) ==
  FloorDiv((clock - startFrame) * TickScale, FramesPerBeat(_bpm)) + 1
StartBeatCount_BeatsSinceStart(timeT) ==
  IF IsSome(timeT) /\ clock > StartFrame(Val(timeT))
    THEN (NumberOfBeatsMissed(StartFrame(Val(timeT))) - 1) % _beatsPerMeasure
    ELSE 0
StartBeatCount(timeT) ==
  IF IsSome(timeT) /\ clock > StartFrame(Val(timeT))
    THEN NumberOfBeatsMissed(StartFrame(Val(timeT))) % _beatsPerMeasure
    ELSE 0
StartNextTickFrame(timeT) ==
  IF IsSome(timeT)
    THEN IF clock > StartFrame(Val(timeT))
           THEN StartFrame(Val(timeT)) * TickScale
                  + NumberOfBeatsMissed(StartFrame(Val(timeT)))
                      * FramesPerBeat(_bpm)
           ELSE StartFrame(Val(timeT)) * TickScale
    ELSE clock * TickScale

ClickStart(timeT) ==
  /\ messages < MaxMessages
  /\ messages' = messages + 1
  /\ _isPlaying' = TRUE
  /\ _beatCount' = StartBeatCount(timeT)
  /\ _nextTickFrame' = StartNextTickFrame(timeT)
  /\ lastStart' = <<[anchor |-> IF IsSome(timeT)
                                  THEN Some(StartFrame(Val(timeT)))
                                  ELSE None,
                     at |-> clock,
                     stopped |-> ~_isPlaying,
                     measureKept |-> TRUE,
                     bpm |-> _bpm,
                     beat |-> StartBeatCount(timeT),
                     tick |-> StartNextTickFrame(timeT)]>>
  /\ firstTick' = <<>>
  /\ block' = [NoBlock EXCEPT !.op = "start"]
  /\ UNCHANGED <<_beatsPerMeasure, _framesInTick, _currentTickFrequency,
                 _bpm, _level>>
  /\ UNCHANGED <<clock, tempo, beatsPerMeasure, deckVars, batchStartFrame,
                 latencyCompensationFrames, onSamples, handed, processor,
                 posted, call>>
  /\ metronomeNode' = Received(metronomeNode)

\* process: one frame of the loop over the output block.
TickDue_Late(st, frame) == frame * TickScale > st.nextTickFrame
TickDue(st, frame) == frame * TickScale >= st.nextTickFrame
\* framesInTick < TICK_DURATION_SEC * sampleRate   (0.05 s)
InsideTick(st) == st.framesInTick >= 0 /\ st.framesInTick * 20 < SampleRate

\* this._currentTickFrequency = isDownbeat ? 600 : 400
TickFrequency_LastBeat(beatCount) ==
  IF beatCount + 1 >= _beatsPerMeasure THEN 600 ELSE 400
TickFrequency(beatCount) == IF beatCount = 0 THEN 600 ELSE 400

\* this._nextTickFrame += framesPerBeat
NextTickAfter_FromDetection(st, frame) ==
  frame * TickScale + FramesPerBeat(_bpm)
NextTickAfter(st, frame) == st.nextTickFrame + FramesPerBeat(_bpm)

Frame(st, frame) ==
  IF ~_isPlaying THEN st
  ELSE
    LET due == TickDue(st, frame)
        t == IF due
               THEN [st EXCEPT
                       !.framesInTick = 0,
                       !.frequency = TickFrequency(st.beatCount),
                       !.nextTickFrame = NextTickAfter(st, frame),
                       !.beatCount = IF @ + 1 >= _beatsPerMeasure
                                       THEN 0 ELSE @ + 1,
                       !.ticks = Append(@, [frame |-> frame,
                                            beat |-> st.beatCount,
                                            accent |->
                                              TickFrequency(st.beatCount)
                                                = 600])]
               ELSE st
    IN [t EXCEPT !.framesInTick = IF InsideTick(t) THEN @ + 1 ELSE -1,
                 !.sound = IF InsideTick(t) THEN @ \cup {frame} ELSE @]

RECURSIVE Frames(_, _, _)
Frames(st, frame, n) ==
  IF n = 0 THEN st ELSE Frames(Frame(st, frame), frame + 1, n - 1)

ClickProcess ==
  /\ clock < MaxClickBlocks * RenderQuantum
  /\ LET st == Frames([framesInTick |-> _framesInTick,
                       frequency |-> _currentTickFrequency,
                       nextTickFrame |-> _nextTickFrame,
                       beatCount |-> _beatCount,
                       ticks |-> <<>>, sound |-> {}], clock, RenderQuantum)
     IN /\ _framesInTick' = st.framesInTick
        /\ _currentTickFrequency' = st.frequency
        /\ _nextTickFrame' = st.nextTickFrame
        /\ _beatCount' = st.beatCount
        /\ block' = [NoBlock EXCEPT !.op = "process", !.ticks = st.ticks,
                                    !.sound = st.sound]
        /\ firstTick' = IF firstTick = <<>> /\ st.ticks # <<>>
                          THEN <<st.ticks[1]>> ELSE firstTick
  /\ clock' = clock + RenderQuantum
  /\ UNCHANGED <<_isPlaying, _beatsPerMeasure, _bpm, _level, messages,
                 lastStart>>
  /\ UNCHANGED <<tempo, beatsPerMeasure, deckVars, batchStartFrame,
                 latencyCompensationFrames, onSamples, handed, processor,
                 posted, metronomeNode, call>>

\* Anchors of 'start', in tenths of a frame relative to the clock: 1.25
\* beats and one whole beat in the past at 120 bpm, a fraction of a frame in
\* the past, now, and ahead by the lead time of startPlayback.
AnchorOffsetsT ==
  { -(25 * SampleRate) \div 4, -5 * SampleRate, -5, 0,
    SampleRate * metronomeDelayTenths + 5 }
SetArgs == { <<70, 3, None>>, <<120, 4, None>>, <<0, 0, Some(2)>> }
InitClick ==
  /\ clock = 0
  /\ batchStartFrame = 0
  /\ ClickInit
  /\ DeckInit

NextClick ==
  \/ ClickProcess
  \/ \E a \in SetArgs : ClickSet(a[1], a[2], a[3])
  \/ \E d \in AnchorOffsetsT : ClickStart(Some(clock * 10 + d))
  \/ ClickStart(None)
  \/ ClickStop

SpecClick == InitClick /\ [][NextClick]_vars

\* handleMessage(event.data): the message at the head of the port. 'start'
\* reads detail.audioContextTimeS.
DetailTime(detail) ==
  IF "audioContextTimeT" \in DOMAIN detail
    THEN Some(detail.audioContextTimeT) ELSE None
Receive ==
  /\ IsSome(metronomeNode) /\ Val(metronomeNode) # <<>>
  /\ LET m == Head(Val(metronomeNode))
     IN \/ /\ m.method = "set"
           /\ ClickSet(m.detail.tempo, m.detail.beatsPerMeasure,
                       IF "level" \in DOMAIN m.detail
                         THEN Some(m.detail.level) ELSE None)
        \/ /\ m.method = "start"
           /\ ClickStart(DetailTime(m.detail))
        \/ /\ m.method = "stop"
           /\ ClickStop

\* ------------------------------------------------------ track accessors
\* if (trackNumber < 0 || trackNumber >= this.#tracks.length) throw
InvalidTrack(trackNumber) == trackNumber < 0 \/ trackNumber >= Len(tracks)

SetTrackName(trackNumber, name) ==
  /\ tracks' = IF InvalidTrack(trackNumber) THEN tracks
                ELSE [tracks EXCEPT ![trackNumber + 1].name = name]
  /\ call' = [Called("setTrackName", <<trackNumber, name>>) EXCEPT
                !.threw = InvalidTrack(trackNumber)]
  /\ UNCHANGED <<clock, tempo, beatsPerMeasure, tapeZeroFrame,
                 punchInTapeFrame, punchOutTapeFrame, stopTapeFrame,
                 armedTrack, onTransportEventCallbacks, resolveStops,
                 observers, transport, passes, lastPass, batchStartFrame,
                 latencyCompensationFrames, onSamples, handed, processor, posted, metronomeNode>>
  /\ UNCHANGED clickVars

GetTrackName(trackNumber) ==
  /\ call' = [Called("getTrackName", <<trackNumber>>) EXCEPT
                !.threw = InvalidTrack(trackNumber),
                !.name = IF InvalidTrack(trackNumber) THEN None
                         ELSE Some(tracks[trackNumber + 1].name)]
  /\ UNCHANGED <<clock, tempo, beatsPerMeasure, deckVars, batchStartFrame,
                 latencyCompensationFrames, onSamples, handed, processor, posted, metronomeNode>>
  /\ UNCHANGED clickVars

\* getTrackSlice: rejected for a bad track number and for a slice of no
\* frames; otherwise frames [startFrame, stopFrame) of the track go to
\* uploadWav.
SliceRejected_OnlyReversed(trackNumber, startH, stopH) ==
  \/ InvalidTrack(trackNumber)
  \/ FramesOfH(stopH) - FramesOfH(startH) < 0
SliceRejected(trackNumber, startH, stopH) ==
  \/ InvalidTrack(trackNumber)
  \/ FramesOfH(stopH) - FramesOfH(startH) <= 0

GetTrackSlice(trackNumber, startH, stopH) ==
  /\ call' = [Called("getTrackSlice", <<trackNumber, startH, stopH>>) EXCEPT
                !.threw = SliceRejected(trackNumber, startH, stopH),
                !.upload = IF SliceRejected(trackNumber, startH, stopH)
                             THEN None
                             ELSE Some([track |-> trackNumber,
                                        from |-> FramesOfH(startH),
                                        to |-> FramesOfH(stopH)])]
  /\ UNCHANGED <<clock, tempo, beatsPerMeasure, deckVars, batchStartFrame,
                 latencyCompensationFrames, onSamples, handed, processor, posted, metronomeNode>>
  /\ UNCHANGED clickVars

\* Track numbers, names and slice times (half frames) the accessors are
\* called with: numbers from one below to one above the tracks there may
\* be; a slice of one second, a reversed one, and one whose two ends round
\* to the same frame.
TrackNumbers == -1 .. MaxTracks
TrackNames == {"gtr"}
SliceTimes == { <<0, 80>>, <<80, 0>>, <<3, 4>> }
RecordArgs ==
  { [startH |-> 4, stopH |-> 400, punchInH |-> Some(41),
     punchOutH |-> Some(300), loopStartH |-> None] }

NextTracks ==
  \/ \E n \in TrackNumbers, name \in TrackNames : SetTrackName(n, name)
  \/ \E n \in TrackNumbers : GetTrackName(n)
  \/ \E n \in TrackNumbers, t \in SliceTimes : GetTrackSlice(n, t[1], t[2])
  \/ \E n \in ArmArgs : Arm(n)
  \/ \E a \in RecordArgs :
       passes < MaxPasses /\ StartPlayback(a) /\ UNCHANGED lastPass
  \/ RenderBatch /\ UNCHANGED handed

\* ------------------------------------------------------------ a session
\* Several passes in a row, with the song's tempo and metre changed in
\* between; each startPlayback is logged with its start argument, the
\* mapping it set, the clock at the call, and whether it asked for and got
\* a recording.
MaxRestarts == 2         \* startPlayback calls in one session

\* SongContext.setSongTime: if (tempo) ...; if (beatsPerMeasure) ...; then
\* every song-time callback, which is updateTempo of the click proxy.
SongTimes == { <<70, 3>>, <<120, 4>>, <<0, 0>> }
SetSongTime(t, m) ==
  /\ tempo' = IF t # 0 THEN t ELSE tempo
  /\ beatsPerMeasure' = IF m # 0 THEN m ELSE beatsPerMeasure
  /\ call' = Called("setSongTime", <<t, m>>)
  /\ metronomeNode' =
       PostMessage(metronomeNode, <<SetMessage(tempo', beatsPerMeasure')>>)
  /\ UNCHANGED <<clock, deckVars, batchStartFrame,
                 latencyCompensationFrames, onSamples, handed, processor, posted>>
  /\ UNCHANGED clickVars

LoggedPass(a) ==
  Some([startH |-> a.startH, zero |-> TapeZeroFor(a.startH), at |-> clock,
        punch |-> IsSome(a.punchInH), rec |-> IsRecordingFor(a.punchInH)])

\* Start arguments of a session: bounded playback from the top, playback
\* from a time that is not a whole frame, playback from a tape time one
\* frame later than the count-in of a deck started at clock 0 ends, and
\* recording in a punch window.
SessionArgs ==
  { [startH |-> 0, stopH |-> 60, punchInH |-> None, punchOutH |-> None,
     loopStartH |-> None],
    [startH |-> 5, stopH |-> NoStopH, punchInH |-> None, punchOutH |-> None,
     loopStartH |-> None],
    [startH |-> 170, stopH |-> NoStopH, punchInH |-> None,
     punchOutH |-> None, loopStartH |-> None],
    [startH |-> 4, stopH |-> 400, punchInH |-> Some(41),
     punchOutH |-> Some(300), loopStartH |-> None] }

InitSession ==
  /\ clock = 0
  /\ batchStartFrame = 0
  /\ ClickInit
  /\ DeckInit

NextSession ==
  \/ \E a \in SongTimes : SetSongTime(a[1], a[2])
  \/ \E a \in SessionArgs :
       passes < MaxRestarts /\ StartPlayback(a) /\ lastPass' = LoggedPass(a)
  \/ Stop
  \/ \E n \in ArmArgs : Arm(n)
  \/ RenderBatch /\ UNCHANGED handed

SpecSession == InitSession /\ [][NextSession]_vars

\* The song, the deck and the click: tempo changes and transport commands
\* with the click proxy created, and the click generator handling what the
\* proxy posts. At most MaxInFlight messages wait in the port.
MaxInFlight == 3
PortRoom(n) ==
  IsSome(metronomeNode) => Len(Val(metronomeNode)) + n <= MaxInFlight
TempoPassArgs ==
  { [startH |-> 0, stopH |-> NoStopH, punchInH |-> None, punchOutH |-> None,
     loopStartH |-> None] }
NextTempo ==
  \/ Create
  \/ \E a \in SongTimes : PortRoom(1) /\ SetSongTime(a[1], a[2])
  \/ \E a \in TempoPassArgs :
       /\ passes < MaxRestarts /\ PortRoom(2)
       /\ StartPlayback(a) /\ UNCHANGED lastPass
  \/ PortRoom(1) /\ Stop
  \/ Receive

SpecTempo == InitSession /\ [][NextTempo]_vars

\* Passes whose punch window falls on batch boundaries when startPlayback
\* is called at frame 0 with the initial song time: LeadFrames is the count-in
\* (0.1 s and one bar), so the batch captured from frame bufferSize covers
\* tape frames [0, bufferSize) in the first pass and the batch captured from
\* frame 0 covers [-1, bufferSize - 1) in the others. The last pass stops
\* inside the batch that covers [0, bufferSize).
LeadFrames ==
  RoundDiv(SampleRate * metronomeDelayTenths * 120 + 4 * 600 * SampleRate,
           10 * 120)
PunchArgs ==
  { [startH |-> 2 * (LeadFrames - bufferSize), stopH |-> NoStopH,
     punchInH |-> Some(2 * bufferSize), punchOutH |-> None,
     loopStartH |-> None],
    [startH |-> 2 * (LeadFrames - 1), stopH |-> NoStopH,
     punchInH |-> Some(bufferSize), punchOutH |-> Some(2 * (bufferSize - 1)),
     loopStartH |-> None],
    [startH |-> 2 * (LeadFrames - 1), stopH |-> NoStopH,
     punchInH |-> Some(2 * (bufferSize + 5)),
     punchOutH |-> Some(2 * (bufferSize + 9)), loopStartH |-> None],
    [startH |-> 2 * (LeadFrames - 1), stopH |-> NoStopH,
     punchInH |-> Some(20), punchOutH |-> Some(40), loopStartH |-> None],
    [startH |-> 2 * (LeadFrames - bufferSize),
     stopH |-> 2 * (bufferSize - RenderQuantum),
     punchInH |-> Some(0), punchOutH |-> None, loopStartH |-> None] }

NextPunch ==
  \/ \E n \in ArmArgs : Arm(n)
  \/ \E a \in PunchArgs :
       passes < MaxRestarts /\ StartPlayback(a) /\ UNCHANGED lastPass
  \/ Stop
  \/ RenderBatch /\ UNCHANGED handed

SpecPunch == InitSession /\ [][NextPunch]_vars

\* Recording passes whose start tape time is earlier than, equal to, one
\* frame later than and well later than the frame at which playback starts
\* (LeadFrames when startPlayback is called at frame 0), so that the
\* tapeZeroFrame computed is positive, 0, -1 and negative. Each punches in
\* at its start and stops two quanta later.
RollingArgs ==
  { [startH |-> 2 * (LeadFrames + d),
     stopH |-> 2 * (LeadFrames + d + 2 * RenderQuantum),
     punchInH |-> Some(2 * (LeadFrames + d)), punchOutH |-> None,
     loopStartH |-> None] : d \in {-4, 0, 1, RenderQuantum} }

NextRolling ==
  \/ \E n \in ArmArgs : Arm(n)
  \/ \E a \in RollingArgs :
       passes < MaxRestarts /\ StartPlayback(a) /\ UNCHANGED lastPass
  \/ Stop
  \/ RenderBatch /\ UNCHANGED handed

SpecRolling == InitSession /\ [][NextRolling]_vars

\* The count-in: the deck starts a pass with the click proxy created, the
\* click generator handles what the proxy posted, before or between render
\* blocks, and renders the bar that precedes playback.
CountInArgs ==
  { [startH |-> h, stopH |-> NoStopH, punchInH |-> None, punchOutH |-> None,
     loopStartH |-> None] : h \in {0, 5} }
NextCountIn ==
  \/ Create
  \/ \E a \in CountInArgs :
       /\ passes < MaxPasses /\ PortRoom(2)
       /\ StartPlayback(a) /\ lastPass' = LoggedPass(a)
  \/ Receive
  \/ ClickProcess

SpecCountIn == InitSession /\ [][NextCountIn]_vars
SpecTracks == InitSession /\ [][NextTracks]_vars

\* ---------------------------------------------------- the record processor
MaxQuanta == 9           \* render quanta the record processor handles

\* The sample of channel j of input i at frame f: the first channel of the
\* first input carries the frame's stamp, every other channel a level of
\* its own.
ChannelSample(i, j, f) ==
  IF i = 0 /\ j = 0 THEN f + 1 ELSE 1000 * (2 * i + j)

\* inputs as the number of channels of each input; inputs[0]?.[0]
HasInputChannel(inputs) == Len(inputs) >= 1 /\ inputs[1] >= 1

\* tmpBuffer after the summing loops: every channel added to the first.
RECURSIVE ChannelsFrom(_, _, _, _)
ChannelsFrom(inputs, i, j, f) ==
  IF i >= Len(inputs) THEN 0
  ELSE IF j >= inputs[i + 1] THEN ChannelsFrom(inputs, i + 1, 0, f)
  ELSE ChannelSample(i, j, f) + ChannelsFrom(inputs, i, j + 1, f)
Summed(inputs) ==
  [k \in 1..RenderQuantum |-> ChannelsFrom(inputs, 0, 0, clock + k - 1)]

\* this.buffer.set(inputChannel, this.framesCollected)
Accumulated(inputs) ==
  [k \in 1..bufferSize |->
     IF k > processor.framesCollected
        /\ k <= processor.framesCollected + RenderQuantum
       THEN ChannelSample(0, 0, clock + k - processor.framesCollected - 1)
       ELSE processor.arrays[processor.buffer][k]]

\* batchStartFrame and batchStartTime are taken at the first quantum.
BatchStart_AtEmission == clock
BatchStart ==
  IF processor.framesCollected = 0 THEN clock ELSE processor.batchStartFrame

\* The statistics loop over a full buffer: <<sumOfSquares, maxPeak,
\* maxPeakIndex>> after its first n samples.
RECURSIVE SumSquares(_, _)
SumSquares(buf, n) ==
  IF n = 0 THEN 0 ELSE SumSquares(buf, n - 1) + buf[n] * buf[n]
PeakOf(buf) ==
  LET levels == {Abs(buf[k]) : k \in DOMAIN buf} \cup {0}
  IN CHOOSE p \in levels : \A q \in levels : q <= p
PeakIndexOf(buf) ==
  LET maxPeak == PeakOf(buf)
  IN IF maxPeak = 0 THEN 0
     ELSE (CHOOSE k \in DOMAIN buf :
             /\ Abs(buf[k]) = maxPeak
             /\ \A h \in 1..(k - 1) : Abs(buf[h]) < maxPeak) - 1
\* Math.sqrt(sumOfSquares / length), rounded down to a whole number.
RmsOf(buf) ==
  LET sumOfSquares == SumSquares(buf, Len(buf))
      maxPeak == PeakOf(buf)
  IN CHOOSE r \in 0..maxPeak :
       /\ r * r * Len(buf) <= sumOfSquares
       /\ (r + 1) * (r + 1) * Len(buf) > sumOfSquares

\* After posting: this.buffer = new Float32Array(this.bufferSize)
NextBuffer(arrays) == Len(arrays) + 1

\* RecordProcessor.process for one render quantum.
Process(inputs) ==
  /\ clock < MaxQuanta * RenderQuantum
  /\ clock' = clock + RenderQuantum
  /\ call' = Called("process", <<inputs>>)
  /\ IF ~HasInputChannel(inputs)
       THEN UNCHANGED <<processor, posted>>
       ELSE
         LET filled == Accumulated(inputs)
             arrays == [processor.arrays EXCEPT ![processor.buffer] = filled]
             full == processor.framesCollected + RenderQuantum >= bufferSize
             next == NextBuffer(arrays)
         IN
         /\ processor' =
              [processor EXCEPT
                 !.tmpBuffer = Summed(inputs),
                 !.batchStartFrame = BatchStart,
                 !.batchStartTime = BatchStart,
                 !.framesCollected =
                    IF full THEN 0 ELSE @ + RenderQuantum,
                 !.buffer = IF full THEN next ELSE @,
                 !.arrays =
                    IF full
                      THEN [k \in 1..Max(next, Len(arrays)) |->
                              IF k = next THEN Zeros(bufferSize)
                              ELSE arrays[k]]
                      ELSE arrays]
         /\ posted' =
              IF full
                THEN Append(posted,
                            [type |-> "samples",
                             samples |-> processor.buffer,
                             rms |-> RmsOf(filled),
                             peak |-> PeakOf(filled),
                             maxPeakIndex |-> PeakIndexOf(filled),
                             startFrame |-> BatchStart,
                             startTimeF |-> BatchStart])
                ELSE posted
  /\ UNCHANGED <<tempo, beatsPerMeasure, deckVars, batchStartFrame,
                 latencyCompensationFrames, onSamples, handed, metronomeNode>>
  /\ UNCHANGED clickVars

WorkerInputs == { <<>>, <<1>>, <<2>>, <<1, 1>> }

NextWorker == \E inputs \in WorkerInputs : Process(inputs)

SpecWorker == InitSession /\ [][NextWorker]_vars

\* ------------------------------------------------------ the capture bridge
MaxSampleCallbacks == 2  \* sample subscribers, the deck among them

\* RecordHandler.addSampleCallback
AddSampleCallback ==
  /\ Len(onSamples) < MaxSampleCallbacks
  /\ onSamples' = Append(onSamples, Len(onSamples))
  /\ call' = Called("addSampleCallback", <<>>)
  /\ UNCHANGED <<clock, tempo, beatsPerMeasure, deckVars, batchStartFrame,
                 latencyCompensationFrames, handed, processor, posted, metronomeNode>>
  /\ UNCHANGED clickVars

\* RecordHandler.setLatencyCompensation(seconds), seconds in half frames.
SetLatencyCompensation(secondsH) ==
  /\ latencyCompensationFrames' = FramesOfH(secondsH)
  /\ call' = Called("setLatencyCompensation", <<secondsH>>)
  /\ UNCHANGED <<clock, tempo, beatsPerMeasure, deckVars, batchStartFrame,
                 onSamples, handed, processor, posted, metronomeNode>>
  /\ UNCHANGED clickVars

LatencyArgs == {0, 5, -3, 170}
CaptureArgs ==
  { [startH |-> 4, stopH |-> 400, punchInH |-> Some(41),
     punchOutH |-> Some(300), loopStartH |-> None],
    [startH |-> EndH - 72, stopH |-> EndH, punchInH |-> Some(EndH - 72),
     punchOutH |-> Some(EndH), loopStartH |-> None] }

NextCapture ==
  \/ AddSampleCallback
  \/ \E h \in LatencyArgs : SetLatencyCompensation(h)
  \/ \E n \in ArmArgs : Arm(n)
  \/ \E a \in CaptureArgs :
       passes < MaxPasses /\ StartPlayback(a) /\ UNCHANGED lastPass
  \/ RenderBatch /\ handed' = HandedOn(call'.threw)

SpecCapture == Init /\ [][NextCapture]_vars

\* Recording while the compensation is changed between batches.
LatencyPassArgs ==
  { [startH |-> 160, stopH |-> NoStopH, punchInH |-> Some(0),
     punchOutH |-> None, loopStartH |-> None] }

NextLatency ==
  \/ \E h \in LatencyArgs : SetLatencyCompensation(h)
  \/ Arm(Some(0))
  \/ \E a \in LatencyPassArgs :
       passes = 0 /\ StartPlayback(a) /\ UNCHANGED lastPass
  \/ RenderBatch /\ handed' = HandedOn(call'.threw)

SpecLatency == InitSession /\ [][NextLatency]_vars

\* The transport with several subscribers.
NextTransport ==
  \/ OnTransportEvent
  \/ Stop
  \/ \E n \in ArmArgs : Arm(n)
  \/ \E a \in PassArgs :
       passes < MaxPasses /\ StartPlayback(a) /\ UNCHANGED lastPass
  \/ RenderBatch /\ UNCHANGED handed

SpecTransport == Init /\ [][NextTransport]_vars

\* The deck with the one transport subscriber the application registers.
Next ==
  \/ OnTransportEvent /\ onTransportEventCallbacks = <<>>
  \/ Stop
  \/ WaitForEnd /\ observers = <<>>
  \/ \E n \in ArmArgs : Arm(n)
  \/ \E a \in PassArgs :
       passes < MaxPasses /\ StartPlayback(a) /\ UNCHANGED lastPass
  \/ RenderBatch /\ UNCHANGED handed

Spec == Init /\ [][Next]_vars

\* Several callers waiting in waitForEnd() across explicit stops and the
\* internal stop of a recording pass that runs to the end of the track.
WaitArgs == {a \in PassArgs : a.stopH = EndH \/ a.punchOutH = None}
NextWait ==
  \/ WaitForEnd
  \/ Stop
  \/ Arm(Some(0))
  \/ \E a \in WaitArgs :
       passes < MaxPasses /\ StartPlayback(a) /\ UNCHANGED lastPass
  \/ RenderBatch /\ UNCHANGED handed

SpecWait == Init /\ [][NextWait]_vars

\* ------------------------------------------------------------------ claims
SampleIn(ts, t, i) ==
  IF t \in DOMAIN ts /\ i \in DOMAIN ts[t].buffer THEN ts[t].buffer[i] ELSE 0
Pending == {resolveStops[k] : k \in DOMAIN resolveStops}
OneStopEventEach(c) ==
  /\ Len(c.events) = Len(onTransportEventCallbacks)
  /\ \A k \in DOMAIN c.events :
       /\ c.events[k].to = onTransportEventCallbacks[k]
       /\ c.events[k].event.action = "stop"

\* C1: while a recording pass with punchIn <= punchOut is in effect, a
\* handled batch changes only samples of the armed track whose index lies in
\* [punchInTapeFrame, punchOutTapeFrame), and it stores every sample of the
\* batch that falls inside that window (a straddling batch is clipped).
C1_WritesStayInPunchWindow ==
  [][ ( /\ call'.op = "handleSamples"
        /\ transport = "play" /\ armedTrack >= 0
        /\ punchInTapeFrame >= 0
        /\ punchOutTapeFrame >= punchInTapeFrame )
      =>
      ( /\ \A t \in DOMAIN tracks' : \A i \in DOMAIN tracks'[t].buffer :
             SampleIn(tracks', t, i) # SampleIn(tracks, t, i)
               => /\ t = armedTrack + 1
                  /\ i >= punchInTapeFrame /\ i < punchOutTapeFrame
        /\ tapeZeroFrame > 0 =>
             \A i \in Max(StartTape, punchInTapeFrame)
                       .. (Min(EndTape, punchOutTapeFrame) - 1) :
               i < TrackLength =>
                 SampleIn(tracks', armedTrack + 1, i)
                   = batchStartFrame + (i - StartTape) + 1 )
    ]_vars

\* C2 as stated: of two stop() calls in a row the second delivers no
\* further TransportEvent and resolves no observer a second time.
C2_SecondStopIsSilent ==
  (call.op = "stop" /\ call.was = "stop")
    => /\ call.events = <<>>
       /\ \A o \in DOMAIN observers : observers[o] <= 1

\* C2 as amended: every stop() call, also one that follows another stop(),
\* delivers exactly one Stop event to each subscriber in registration order;
\* no observer is resolved more than once, and the observers pending at the
\* call are resolved by it.
C2_EachStopEmitsOnce ==
  (call.op = "stop")
    => /\ OneStopEventEach(call)
       /\ \A o \in DOMAIN observers : observers[o] <= 1
       /\ \A k \in DOMAIN call.resolved : observers[call.resolved[k]] = 1
       /\ resolveStops = <<>>

C2_Witness ==
  /\ call.op = "stop" /\ call.was = "stop"
  /\ Len(call.events) >= 1
  /\ \E o \in DOMAIN observers : observers[o] = 1

\* C3: an observer of waitForEnd() is resolved exactly once, by the first
\* stop (explicit or internal) executed after its creation: a step in which
\* stop() runs resolves every pending observer and leaves none pending, a
\* step in which it does not run resolves none, and an observer is pending
\* exactly as long as it has not been resolved.
C3_ObserverResolvedOnceByNextStop ==
  [][ /\ \A o \in DOMAIN observers' :
           /\ observers'[o] <= 1
           /\ (observers'[o] = 0) <=> (o \in Pending')
      /\ call'.stopped =>
           /\ Pending' = {}
           /\ \A o \in Pending : observers'[o] = 1
           /\ \A o \in DOMAIN observers \ Pending :
                observers'[o] = observers[o]
      /\ ~call'.stopped =>
           \A o \in DOMAIN observers : observers'[o] = observers[o]
    ]_vars

C3_Witness ==
  /\ call.stopped
  /\ Len(observers) >= 2
  /\ observers[1] = 1
  /\ observers[2] = 1
  /\ call.resolved = <<2>>

\* C4: in a playback-only pass with a finite stop time, handling the batch
\* whose end reaches the stop frame executes the internal stop: the pass is
\* no longer rolling once such a batch has been handled.
C4_PlaybackOnlyPassStopsAtEnd ==
  ( /\ call.op = "handleSamples"
    /\ transport = "play"
    /\ stopTapeFrame >= 0
    /\ (armedTrack < 0 \/ punchInTapeFrame < 0) )
    => call.arg[1] + bufferSize - tapeZeroFrame < stopTapeFrame

\* C5: in a recording pass with a finite stop time, handling the first
\* batch whose end tape frame reaches the stop frame executes the internal
\* stop (which resumes the caller waiting in waitForEnd()).
C5_RecordingPassStopsAtEnd ==
  ( /\ call.op = "handleSamples"
    /\ transport = "play"
    /\ stopTapeFrame >= 0
    /\ armedTrack >= 0 /\ punchInTapeFrame >= 0 )
    => call.arg[1] + bufferSize - tapeZeroFrame < stopTapeFrame

\* C6: handling a batch never raises, also when its target range extends
\* past the capacity of the track.
C6_WriteNeverFaults ==
  call.op = "handleSamples" => ~call.threw

\* C7: after arm(trackIndex) the track list is longer than trackIndex and
\* the armed index is trackIndex, replacing whichever index was armed.
C7_ArmGrowsAndArms ==
  [][ (call'.op = "arm" /\ IsSome(call'.arg))
        => /\ Len(tracks') > Val(call'.arg)
           /\ armedTrack' = Val(call'.arg)
           /\ call'.ret = Val(call'.arg)
    ]_vars

C7_Witness ==
  /\ call.op = "arm" /\ call.arg = Some(0)
  /\ armedTrack = 0
  /\ Len(tracks) = 2
  /\ DOMAIN tracks[2].buffer # {}

\* C8: arm(none) with n tracks creates exactly one empty track, returns n,
\* arms n and leaves the n existing tracks as they were; arm(k) with k < n
\* creates no track.
C8_ArmNoneTakesNextIndex ==
  [][ /\ (call'.op = "arm" /\ ~IsSome(call'.arg))
         => /\ Len(tracks') = Len(tracks) + 1
            /\ SubSeq(tracks', 1, Len(tracks)) = tracks
            /\ tracks'[Len(tracks) + 1].buffer = <<>>
            /\ ~IsSome(tracks'[Len(tracks) + 1].sourceNode)
            /\ call'.ret = Len(tracks)
            /\ armedTrack' = Len(tracks)
      /\ (call'.op = "arm" /\ IsSome(call'.arg)
            /\ Val(call'.arg) < Len(tracks))
         => tracks' = tracks
    ]_vars

C8_Witness ==
  /\ call.op = "arm" /\ call.arg = None
  /\ call.ret = 1
  /\ Len(tracks) = 2
  /\ DOMAIN tracks[1].buffer # {}

\* C9: after a 'start' whose anchor frame A lies in the past, the next tick
\* is A + k beats for the k >= 1 with (k - 1) beats <= currentFrame - A <
\* k beats (k = beatsElapsed + 1), the beat index of that tick is
\* k mod beatsPerMeasure, and the tick is not before currentFrame; at 120
\* bpm in 4/4 an anchor between one and two beats back gives the tick one
\* second after the anchor with beat index 2.
C9_CatchUpFromPastAnchor ==
  ( /\ block.op = "start"
    /\ IsSome(lastStart[1].anchor)
    /\ clock > Val(lastStart[1].anchor) )
  =>
  LET A == Val(lastStart[1].anchor)
      fpb == FramesPerBeat(_bpm)
      elapsed == (clock - A) * TickScale
  IN /\ \E k \in 1..(clock - A + 1) :
          /\ _nextTickFrame = A * TickScale + k * fpb
          /\ (k - 1) * fpb <= elapsed
          /\ elapsed < k * fpb
          /\ _beatCount = k % _beatsPerMeasure
     /\ _nextTickFrame >= clock * TickScale
     /\ ( /\ _bpm = 120 /\ _beatsPerMeasure = 4
          /\ 2 * (clock - A) >= SampleRate /\ clock - A < SampleRate )
        => /\ _nextTickFrame = (A + SampleRate) * TickScale
           /\ _beatCount = 2

C9_Witness ==
  /\ block.op = "start"
  /\ IsSome(lastStart[1].anchor)
  /\ _bpm = 120 /\ _beatsPerMeasure = 4
  /\ Val(lastStart[1].anchor) >= 0
  /\ 4 * (clock - Val(lastStart[1].anchor)) = 5 * (SampleRate \div 2)
  /\ _beatCount = 2
  /\ _nextTickFrame = (Val(lastStart[1].anchor) + SampleRate) * TickScale

\* The frame at which the first tick after the last 'start' is to begin when
\* the anchor is not in the past: the anchor, or the frame of the 'start'
\* when it carried none.
FirstTickFrame ==
  IF IsSome(lastStart[1].anchor) THEN Val(lastStart[1].anchor)
                                 ELSE lastStart[1].at

\* C10: after a 'start' whose anchor frame is not in the past (or that has
\* no anchor), the first tick begins exactly at the anchor frame (at the
\* current frame without anchor) with beat index 0, accented; no tick begins
\* before it, and it has begun once that frame has been rendered.
C10_FirstTickAtAnchor ==
  ( /\ lastStart # <<>>
    /\ lastStart[1].at <= FirstTickFrame )
  =>
  /\ firstTick # <<>> =>
       /\ firstTick[1].frame = FirstTickFrame
       /\ firstTick[1].beat = 0
       /\ firstTick[1].accent
  /\ (_isPlaying /\ clock > FirstTickFrame) => firstTick # <<>>

C10_Witness ==
  /\ lastStart # <<>>
  /\ IsSome(lastStart[1].anchor)
  /\ lastStart[1].at < Val(lastStart[1].anchor)
  /\ firstTick # <<>>
  /\ firstTick[1].frame = Val(lastStart[1].anchor)
  /\ firstTick[1].frame % RenderQuantum # 0
  /\ _currentTickFrequency = 600

\* C11: after startPlayback the tape-zero frame is the anchor frame carried
\* by the Play event of the call minus the frame of the start tape time.
C11_MappingMatchesPlayEvent ==
  call.op = "startPlayback"
    => \A k \in DOMAIN call.events :
         tapeZeroFrame
           = RoundDiv(call.events[k].event.audioCtxTimeT, 10)
               - FramesOfH(call.events[k].event.tapeTimeH)

\* C12: startPlayback(t); stop(); startPlayback(t) gives a second mapping
\* that differs from the first by exactly the frames the clock advanced
\* between the two calls, whatever happened to tempo and metre in between.
C12_RoundTripKeepsMapping ==
  [][ ( /\ call'.op = "startPlayback"
        /\ transport = "stop"
        /\ IsSome(lastPass)
        /\ Val(lastPass).startH = call'.arg[1].startH )
      => tapeZeroFrame' - Val(lastPass).zero = clock - Val(lastPass).at
    ]_vars

\* C13: once stop() has run, no track holds a source and the mapping and
\* both punch thresholds are none; a stop() of a deck that is not rolling
\* leaves mapping, thresholds, sources, armed index and buffers as they
\* were; and only a step in which stop() runs takes the mapping from set to
\* none.
C13_OnlyStopEndsRolling ==
  [][ /\ call'.stopped =>
           /\ \A i \in DOMAIN tracks' : ~IsSome(tracks'[i].sourceNode)
           /\ tapeZeroFrame' = -1
           /\ punchInTapeFrame' = -1
           /\ punchOutTapeFrame' = -1
      /\ (call'.op = "stop" /\ transport = "stop") =>
           /\ tracks' = tracks
           /\ armedTrack' = armedTrack
           /\ tapeZeroFrame' = tapeZeroFrame
           /\ punchInTapeFrame' = punchInTapeFrame
           /\ punchOutTapeFrame' = punchOutTapeFrame
      /\ (tapeZeroFrame # -1 /\ tapeZeroFrame' = -1) => call'.stopped
    ]_vars

\* C14: a batch handled after stop() has ended the pass (and before the next
\* startPlayback) delivers no event, runs no stop and resolves no observer,
\* also when the pass had a stop frame and an armed track; so the internal
\* stop runs at most once per startPlayback.
C14_StaleStopSuppressed ==
  [][ (call'.op = "handleSamples" /\ transport # "play")
        => /\ call'.events = <<>>
           /\ ~call'.stopped
           /\ observers' = observers
           /\ resolveStops' = resolveStops
    ]_vars

C14_Witness ==
  /\ call.op = "handleSamples" /\ call.was = "stop"
  /\ stopTapeFrame >= 0 /\ armedTrack >= 0
  /\ onTransportEventCallbacks # <<>>
  /\ resolveStops # <<>>
  /\ call.events = <<>>

\* C15: a batch handled while no track is armed, or while the mapping is
\* none, or while punch-in is not set, changes no track, no mapping, no
\* punch threshold, no armed index and no observer, delivers no event and
\* raises nothing.
C15_GatedBatchChangesNothing ==
  [][ ( /\ call'.op = "handleSamples"
        /\ (armedTrack < 0 \/ tapeZeroFrame = -1 \/ punchInTapeFrame < 0) )
        => /\ tracks' = tracks
           /\ tapeZeroFrame' = tapeZeroFrame
           /\ punchInTapeFrame' = punchInTapeFrame
           /\ punchOutTapeFrame' = punchOutTapeFrame
           /\ armedTrack' = armedTrack
           /\ resolveStops' = resolveStops
           /\ observers' = observers
           /\ call'.events = <<>>
           /\ ~call'.stopped /\ ~call'.threw
    ]_vars

\* A rolling pass with punch-in set and no armed track, at a batch whose
\* end lies at or beyond the stop frame.
C15_Witness ==
  /\ call.op = "handleSamples"
  /\ transport = "play" /\ tapeZeroFrame > 0
  /\ punchInTapeFrame >= 0 /\ armedTrack < 0
  /\ stopTapeFrame >= 0
  /\ call.arg[1] + bufferSize - tapeZeroFrame >= stopTapeFrame
  /\ onTransportEventCallbacks # <<>>
  /\ resolveStops # <<>>

\* C16: startPlayback with punch-in set and no armed track raises nothing,
\* starts a source on every track and delivers the Play event; and from
\* that call until the next stop no batch changes a track buffer, whatever
\* is called in between.
C16_MisconfiguredPunchRecordsNothing ==
  [][ /\ ( /\ call'.op = "startPlayback"
           /\ IsSome(call'.arg[1].punchInH) /\ armedTrack = -1 )
          => /\ ~call'.threw
             /\ \A i \in DOMAIN tracks' : IsSome(tracks'[i].sourceNode)
             /\ Len(call'.events) = Len(onTransportEventCallbacks)
      /\ ( /\ call'.op = "handleSamples" /\ transport = "play"
           /\ IsSome(lastPass)
           /\ Val(lastPass).punch /\ ~Val(lastPass).rec )
          => \A i \in DOMAIN tracks : tracks'[i].buffer = tracks[i].buffer
    ]_vars

\* C17: getTrackSlice, setTrackName and getTrackName called with a track
\* number below 0 or not below the track count raise and change nothing
\* (tracks with their names and buffers, armed index, mapping, punch
\* thresholds); getTrackSlice whose stop frame is not after its start frame
\* raises, changes nothing and hands nothing to the file manager.
C17_BadArgumentsRejected ==
  [][ /\ ( /\ call'.op \in {"getTrackSlice", "setTrackName", "getTrackName"}
           /\ (call'.arg[1] < 0 \/ call'.arg[1] >= Len(tracks)) )
          => /\ call'.threw
             /\ call'.upload = None /\ call'.name = None
             /\ UNCHANGED <<tracks, armedTrack, tapeZeroFrame,
                            punchInTapeFrame, punchOutTapeFrame>>
      /\ ( /\ call'.op = "getTrackSlice"
           /\ FramesOfH(call'.arg[3]) <= FramesOfH(call'.arg[2]) )
          => /\ call'.threw
             /\ call'.upload = None
             /\ UNCHANGED <<tracks, armedTrack, tapeZeroFrame,
                            punchInTapeFrame, punchOutTapeFrame>>
    ]_vars

\* A slice whose two times differ but round to one frame, asked of a named
\* track that holds a recording while the deck is rolling.
C17_Witness ==
  /\ call.op = "getTrackSlice" /\ call.threw
  /\ call.arg[1] = 0 /\ call.arg[2] < call.arg[3]
  /\ Len(tracks) >= 1
  /\ tracks[1].name = "gtr"
  /\ DOMAIN tracks[1].buffer # {}
  /\ tapeZeroFrame > 0 /\ punchInTapeFrame >= 0

\* C18: a source a track holds was created by the latest startPlayback and
\* has been started once; when startPlayback returns, every track but the
\* armed one holds such a source and the armed track holds none.
C18_SourcesAreFreshOneShots ==
  [][ /\ \A i \in DOMAIN tracks' :
           IsSome(tracks'[i].sourceNode)
             => /\ Val(tracks'[i].sourceNode).starts = 1
                /\ Val(tracks'[i].sourceNode).pass = passes'
      /\ call'.op = "startPlayback"
           => \A i \in DOMAIN tracks' :
                IsSome(tracks'[i].sourceNode) <=> (i - 1 # armedTrack')
    ]_vars

\* A second startPlayback, called while the first pass is rolling, that
\* records on the second of two tracks.
C18_Witness ==
  /\ call.op = "startPlayback" /\ call.was = "play"
  /\ passes = 2
  /\ Len(tracks) = 2 /\ armedTrack = 1
  /\ IsSome(tracks[1].sourceNode)
  /\ Val(tracks[1].sourceNode).pass = 2
  /\ ~IsSome(tracks[2].sourceNode)

\* C19: a call of startPlayback, and any call in which stop runs, delivers
\* its one event within the call to every subscriber registered before it,
\* once each and in registration order, and no other call delivers any; a
\* subscriber receiving the Play event finds the mapping, the punch
\* thresholds and the sources that the call leaves.
C19_EventsDeliveredInOrder ==
  [][ IF call'.op = "startPlayback" \/ call'.stopped
        THEN /\ Len(call'.events) = Len(onTransportEventCallbacks)
             /\ \A k \in DOMAIN call'.events :
                  /\ call'.events[k].to = onTransportEventCallbacks[k]
                  /\ call'.events[k].event = call'.events[1].event
                  /\ call'.events[k].event.action =
                       (IF call'.stopped THEN "stop" ELSE "play")
                  /\ call'.op = "startPlayback"
                       => call'.events[k].seen =
                            Seen(tapeZeroFrame', punchInTapeFrame',
                                 punchOutTapeFrame', tracks')
        ELSE call'.events = <<>>
    ]_vars

\* A recording pass started with two subscribers registered and two tracks,
\* one of which gets a source.
C19_Witness ==
  /\ call.op = "startPlayback"
  /\ Len(onTransportEventCallbacks) = 2
  /\ Len(call.events) = 2
  /\ call.events[1].to = 1 /\ call.events[2].to = 2
  /\ punchInTapeFrame >= 0 /\ armedTrack = 0
  /\ Len(tracks) = 2 /\ IsSome(tracks[2].sourceNode)
  /\ call.events[1].seen.zero = tapeZeroFrame

\* C20: a batch posted with start frame s while the compensation is c
\* frames is handed once to every registered sample subscriber, in
\* registration order, with startFrame s - c and its start time moved back
\* by c frames, its samples, rms, peak and peak index as posted, and with
\* c the rounded product of the seconds last set and the sample rate.
C20_EverySubscriberHandedAdjustedBatch ==
  [][ /\ call'.op = "handleSamples"
           => /\ Len(handed') = Len(onSamples)
              /\ \A k \in DOMAIN handed' :
                   /\ handed'[k].to = onSamples[k]
                   /\ handed'[k].data =
                        [Posted EXCEPT
                           !.startFrame =
                              batchStartFrame - latencyCompensationFrames,
                           !.startTimeF =
                              batchStartFrame - latencyCompensationFrames]
      /\ call'.op = "setLatencyCompensation"
           => 2 * latencyCompensationFrames' \in
                { call'.arg[1] + 1, call'.arg[1] }
    ]_vars

\* C21: a batch is adjusted by the compensation in force when it is
\* received and written at the position that value gives, changing no
\* sample outside the range it writes; setLatencyCompensation itself changes
\* no track buffer and no batch already handed on.
C21_CompensationNotRetroactive ==
  [][ /\ call'.op = "setLatencyCompensation"
           => tracks' = tracks /\ handed' = handed
      /\ call'.op = "handleSamples"
           => /\ call'.arg[1] = batchStartFrame - latencyCompensationFrames
              /\ handed'[DeckAt].data.startFrame =
                   batchStartFrame - latencyCompensationFrames
              /\ call'.wrote # <<>>
                   => call'.wrote[2] =
                        Max(0, batchStartFrame - latencyCompensationFrames
                                 - tapeZeroFrame)
              /\ \A t \in DOMAIN tracks : \A i \in DOMAIN tracks[t].buffer :
                   ( \/ call'.wrote = <<>>
                     \/ t - 1 # call'.wrote[1]
                     \/ i < call'.wrote[2] \/ i >= call'.wrote[3] )
                   => /\ i \in DOMAIN tracks'[t].buffer
                      /\ tracks'[t].buffer[i] = tracks[t].buffer[i]
    ]_vars

\* A batch written after the compensation was changed: the armed track
\* holds samples placed under two different compensations.
C21_Witness ==
  /\ call.op = "handleSamples" /\ call.wrote # <<>>
  /\ armedTrack = 0 /\ Len(tracks) >= 1
  /\ \E i, j \in DOMAIN tracks[1].buffer :
       tracks[1].buffer[i] - i # tracks[1].buffer[j] - j

\* C22: the startFrame of the adjusted batch handed to the deck's sample
\* handler is never below that of the batch handed to it before, whatever
\* setLatencyCompensation calls come between the two.
C22_AdjustedStartsNonDecreasing ==
  [][ (call'.op = "handleSamples" /\ handed # <<>>)
        => handed'[DeckAt].data.startFrame >= handed[DeckAt].data.startFrame
    ]_vars

\* C23: the record processor posts a batch exactly in the quantum that
\* completes bufferSize accumulated frames; the batch holds those frames in
\* arrival order, each once, its startFrame and start time are the frame
\* clock at its first quantum, and no frame of it was in an earlier batch;
\* after posting, accumulation restarts from empty in a fresh array, every
\* quantum with input is accumulated, and an array that was posted is not
\* written again.
C23_BatchesAreWholeAndDisjoint ==
  [][ LET present == HasInputChannel(call'.arg[1])
          full == processor.framesCollected + RenderQuantum >= bufferSize
          n == Len(posted)
      IN
      /\ processor.framesCollected + RenderQuantum <= bufferSize
      /\ Len(posted') = IF present /\ full THEN n + 1 ELSE n
      /\ \A k \in 1..n :
           /\ posted'[k] = posted[k]
           /\ processor'.arrays[posted[k].samples] =
                processor.arrays[posted[k].samples]
      /\ present
           => \A k \in 1..RenderQuantum :
                processor'.arrays[processor.buffer]
                                 [processor.framesCollected + k] = clock + k
      /\ (present /\ ~full)
           => /\ processor'.buffer = processor.buffer
              /\ processor'.framesCollected =
                   processor.framesCollected + RenderQuantum
      /\ (present /\ full)
           => LET m == posted'[n + 1]
                  content == processor'.arrays[m.samples]
              IN /\ Len(content) = bufferSize
                 /\ m.startFrame = content[1] - 1
                 /\ m.startTimeF = content[1] - 1
                 /\ content[bufferSize] = clock + RenderQuantum
                 /\ \A k \in 1..(bufferSize - 1) :
                      IF k % RenderQuantum = 0
                        THEN content[k + 1] > content[k]
                        ELSE content[k + 1] = content[k] + 1
                 /\ \A k \in 1..n :
                      processor.arrays[posted[k].samples][bufferSize]
                        < content[1]
                 /\ processor'.framesCollected = 0
                 /\ \A k \in 1..(n + 1) :
                      processor'.buffer # posted'[k].samples
                 /\ processor'.arrays[processor'.buffer] = Zeros(bufferSize)
    ]_vars

\* Two batches posted, the second after a quantum that had no input.
C23_Witness ==
  /\ Len(posted) = 2
  /\ posted[2].startFrame > posted[1].startFrame + bufferSize
  /\ processor.framesCollected = 0

\* C24: every frame the record processor accumulates into the batch is the
\* sum of that frame's samples over all channels of all inputs.
C24_BatchHoldsChannelSum ==
  [][ HasInputChannel(call'.arg[1])
        => \A k \in 1..RenderQuantum :
             processor'.arrays[processor.buffer]
                              [processor.framesCollected + k] =
               ChannelsFrom(call'.arg[1], 0, 0, clock + k - 1)
    ]_vars

\* C25: a block rendered while stopped is silent; after a 'start' received
\* while stopped, no frame before the first tick frame that 'start'
\* computed carries a tick sample, whatever the generator was doing when it
\* was stopped; and the first tick after the 'start' has the beat index
\* that 'start' computed.
C25_StopKeepsNoTickState ==
  [][ block'.op = "process"
        => /\ ~_isPlaying => block'.sound = {}
           /\ (_isPlaying /\ lastStart # <<>> /\ lastStart[1].stopped)
                => /\ \A f \in block'.sound :
                        f * TickScale >= lastStart[1].tick
                   /\ (firstTick = <<>> /\ firstTick' # <<>>)
                        => firstTick'[1].beat = lastStart[1].beat
    ]_vars

\* C26: while playing with beatsPerMeasure unchanged since the 'start', a
\* tick is accented exactly when the beat index it begins with is 0, the
\* first tick has the index the 'start' computed, and each tick's index is
\* its predecessor's plus one modulo beatsPerMeasure.
C26_AccentEveryMeasure ==
  [][ ( /\ block'.op = "process" /\ _isPlaying
        /\ lastStart # <<>> /\ lastStart[1].measureKept )
        => LET ts == block'.ticks
           IN /\ \A k \in DOMAIN ts : ts[k].accent <=> ts[k].beat = 0
              /\ \A k \in 1..(Len(ts) - 1) :
                   ts[k + 1].beat = (ts[k].beat + 1) % _beatsPerMeasure
              /\ IF ts = <<>>
                   THEN _beatCount' = _beatCount
                   ELSE /\ ts[1].beat = _beatCount
                        /\ _beatCount' =
                             (ts[Len(ts)].beat + 1) % _beatsPerMeasure
                        /\ _currentTickFrequency' =
                             IF ts[Len(ts)].beat = 0 THEN 600 ELSE 400
              /\ (firstTick = <<>> /\ ts # <<>>)
                   => ts[1].beat = lastStart[1].beat
    ]_vars

\* A pass that began on beat 1 and has come round to an accented tick.
C26_Witness ==
  /\ _isPlaying /\ block.op = "process"
  /\ lastStart # <<>> /\ lastStart[1].measureKept
  /\ lastStart[1].beat = 1
  /\ block.ticks # <<>> /\ block.ticks[1].accent
  /\ firstTick # <<>> /\ firstTick[1].frame < block.ticks[1].frame

\* C27: a 'set' received while playing changes neither isPlaying, nor the
\* tick already scheduled, nor the beat index, nor the tick in progress; the
\* scheduled tick begins at the frame it was scheduled for, and each tick
\* that begins moves nextTickFrame on by one beat of the tempo then current.
C27_SetNotRetroactive ==
  [][ /\ (block'.op = "set" /\ _isPlaying)
        => /\ _isPlaying' /\ _nextTickFrame' = _nextTickFrame
           /\ _beatCount' = _beatCount
           /\ _framesInTick' = _framesInTick
           /\ _currentTickFrequency' = _currentTickFrequency
      /\ (block'.op = "process" /\ _isPlaying)
        => LET ts == block'.ticks
           IN /\ _nextTickFrame' =
                   _nextTickFrame + Len(ts) * FramesPerBeat(_bpm)
              /\ ts # <<>>
                   => /\ ts[1].frame * TickScale >= _nextTickFrame
                      /\ \/ ts[1].frame = clock
                         \/ (ts[1].frame - 1) * TickScale < _nextTickFrame
    ]_vars

\* A tick has begun after a 'set' changed the tempo during play.
C27_Witness ==
  /\ _isPlaying /\ block.op = "process" /\ block.ticks # <<>>
  /\ lastStart # <<>> /\ lastStart[1].bpm # _bpm
  /\ firstTick # <<>> /\ firstTick[1].frame < block.ticks[1].frame

\* C28: during a recording pass a handled batch whose tape range
\* [StartTape, EndTape) does not meet [punchInTapeFrame, punchOutTapeFrame)
\* (a batch ending exactly at punch-in and one starting exactly at punch-out
\* included) changes no sample of any track.
C28_BatchOutsideWindowIsDropped ==
  [][ ( /\ call'.op = "handleSamples" /\ ~Gated
        /\ \/ EndTape <= punchInTapeFrame
           \/ punchOutTapeFrame >= 0 /\ StartTape >= punchOutTapeFrame )
        => \A t \in DOMAIN tracks :
             tracks'[t].buffer = tracks[t].buffer
    ]_vars

\* C29: when a handler in which stop() ran has returned, explicit or
\* triggered by the batch that reaches the stop frame, every track's
\* statistics are those of the buffer the track then holds.
C29_StatsCurrentAfterStop ==
  call.stopped
    => \A t \in DOMAIN tracks :
         tracks[t].stats = <<TrackStats(tracks[t].buffer)>>

C31_NoWriteAfterStop ==
  [][ ( /\ call'.op = "handleSamples" /\ messages' = messages
        /\ (transport = "stop" \/ call'.stopped) )
        => /\ \A t \in DOMAIN tracks : tracks'[t].buffer = tracks[t].buffer
           /\ ~call'.threw
    ]_vars

\* C32: between a startPlayback with punch-in on an armed track and the
\* next stop the deck treats every batch as belonging to a rolling tape,
\* whatever tapeZeroFrame the start arguments gave: a batch that overlaps
\* the punch window is written to the armed track and a batch that reaches
\* the stop frame runs the stop.
C32_RollingForEveryStart ==
  [][ ( /\ call'.op = "handleSamples" /\ messages' = messages
        /\ transport = "play" /\ armedTrack >= 0 /\ punchInTapeFrame >= 0 )
        => /\ ( /\ EndTape > Max(punchInTapeFrame, 0)
                /\ (punchOutTapeFrame >= 0 => StartTape < punchOutTapeFrame) )
               => ( call'.threw
                    \/ ( call'.wrote # <<>> /\ call'.wrote[1] = armedTrack ) )
           /\ ( stopTapeFrame >= 0 /\ EndTape >= stopTapeFrame )
               => call'.stopped
    ]_vars

\* C33: when a batch is written, the sample at index i of the batch
\* (captured at frame batchStartFrame + i, start frame adjusted by the
\* latency compensation c) that lies inside the punch window is found at
\* index batchStartFrame - c - tapeZeroFrame + i of the armed track; samples
\* that would fall before index 0 are discarded and the rest starts at 0.
C33_SamplePlacement ==
  [][ ( /\ call'.op = "handleSamples" /\ messages' = messages
        /\ call'.wrote # <<>> )
        => /\ \A i \in 0..(bufferSize - 1) :
                LET at == batchStartFrame - latencyCompensationFrames
                            - tapeZeroFrame + i
                IN ( /\ at >= 0 /\ at >= punchInTapeFrame
                     /\ (punchOutTapeFrame >= 0 => at < punchOutTapeFrame) )
                     => SampleIn(tracks', armedTrack + 1, at)
                          = batchStartFrame + i + 1
           /\ \A at \in DOMAIN tracks'[armedTrack + 1].buffer : at >= 0
           /\ call'.wrote[2] =
                Max(0, batchStartFrame - latencyCompensationFrames
                         - tapeZeroFrame)
    ]_vars

\* A batch that began before tape frame 0 was written from index 0 on while
\* a positive compensation was in force.
C33_Witness ==
  /\ call.op = "handleSamples" /\ call.wrote # <<>>
  /\ call.wrote[2] = 0 /\ call.wrote[3] < bufferSize
  /\ latencyCompensationFrames > 0
  /\ tapeZeroFrame > 0 /\ call.arg[1] < tapeZeroFrame
  /\ SampleIn(tracks, armedTrack + 1, 0)
       = tapeZeroFrame + latencyCompensationFrames + 1

\* C34: the 'start' message the click proxy posts for a Play event carries
\* the event's anchor time where the generator reads it: the generator
\* handling that message takes the frame of the event's time as its anchor
\* and, when that frame is not yet past, schedules the first tick there
\* with beat index 0.
C34_StartCarriesAnchor ==
  [][ ( /\ messages' = messages + 1
        /\ block'.op = "start"
        /\ IsSome(metronomeNode) /\ Val(metronomeNode) # <<>>
        /\ Head(Val(metronomeNode)).method = "start" )
        => LET time == Head(Val(metronomeNode)).detail.audioCtxTimeT
           IN /\ lastStart'[1].anchor = Some(StartFrame(time))
              /\ clock <= StartFrame(time)
                   => /\ _nextTickFrame' = StartFrame(time) * TickScale
                      /\ _beatCount' = 0 ]_vars

\* C35: with the click proxy created and the tempo unchanged, the click
\* generator started by the 'start' of a pass begins an accented tick (beat
\* index 0) at the frame at which the playback sources of that pass start:
\* the frame tapeZeroFrame maps the start tape time to, one measure after
\* the anchor of the Play event.
C35_CountInAlignment ==
  [][ ( /\ block'.op = "process" /\ clock' # clock
        /\ IsSome(lastPass) /\ transport = "play"
        /\ IsSome(metronomeNode) /\ Val(metronomeNode) = <<>>
        /\ lastStart # <<>>
        /\ lastPass[1].zero + FramesOfH(lastPass[1].startH) >= clock
        /\ lastPass[1].zero + FramesOfH(lastPass[1].startH) < clock' )
        => \E k \in DOMAIN block'.ticks :
             /\ block'.ticks[k].frame
                  = lastPass[1].zero + FramesOfH(lastPass[1].startH)
             /\ block'.ticks[k].beat = 0
             /\ block'.ticks[k].accent ]_vars

\* C36: in every state of the click generator the beat index is within the
\* measure, 0 <= _beatCount < _beatsPerMeasure, also right after a 'set'
\* that lowers beatsPerMeasure while playing.
C36_BeatIndexInRange == _beatCount >= 0 /\ _beatCount < _beatsPerMeasure

\* C37: while playing, the ticks of a render block begin where the
\* accumulated schedule puts them: the k-th tick of the block begins at the
\* first processed frame at or after _nextTickFrame + (k - 1) * framesPerBeat,
\* wherever in the block that frame falls; each tick begun moves the
\* schedule on by exactly framesPerBeat, whatever the frame at which it was
\* detected; no two ticks begin at one frame and no tick due in the block
\* is left out.
C37_DriftFreeSchedule ==
  [][ ( block'.op = "process" /\ clock' # clock /\ _isPlaying )
        => LET ticks == block'.ticks
               due(k) == _nextTickFrame + (k - 1) * FramesPerBeat(_bpm)
           IN /\ \A k \in DOMAIN ticks :
                   /\ ticks[k].frame >= clock /\ ticks[k].frame < clock'
                   /\ ticks[k].frame * TickScale >= due(k)
                   /\ (ticks[k].frame - 1) * TickScale < due(k)
                   /\ k > 1 => ticks[k].frame > ticks[k - 1].frame
              /\ _nextTickFrame'
                   = _nextTickFrame + Len(ticks) * FramesPerBeat(_bpm)
              /\ _nextTickFrame' > (clock' - 1) * TickScale ]_vars

C37_Witness ==
  /\ block.op = "process" /\ _isPlaying /\ _bpm = 70
  /\ block.ticks # <<>>
  /\ firstTick # <<>> /\ firstTick[1].frame < block.ticks[1].frame
  /\ block.ticks[1].frame % RenderQuantum # 0
  /\ _nextTickFrame % TickScale # 0

\* C38: startPlayback without punch-in, or with punch-in and no armed
\* track, leaves no track armed and gives every track a playback source;
\* startPlayback with punch-in and an armed track keeps the armed index;
\* stop(), called directly or by the deck at the end of the range, leaves
\* the armed index as it was.
C38_ArmedIndexLifecycle ==
  [][ /\ ( call'.op = "startPlayback" /\ messages' = messages )
         => IF IsSome(call'.arg[1].punchInH) /\ armedTrack # -1
              THEN armedTrack' = armedTrack
              ELSE /\ armedTrack' = -1
                   /\ \A t \in DOMAIN tracks' : IsSome(tracks'[t].sourceNode)
      /\ ( call'.stopped /\ messages' = messages )
         => armedTrack' = armedTrack ]_vars

C38_Witness ==
  /\ call.op = "startPlayback" /\ ~IsSome(call.arg[1].punchInH)
  /\ armedTrack = -1
  /\ tracks # <<>>
  /\ \A t \in DOMAIN tracks : IsSome(tracks[t].sourceNode)

\* C39: whenever recording is active (a track is armed, the tape is rolling
\* and punch-in is set) the armed track holds no playback source, and a
\* batch is written only to the track startPlayback left without a source,
\* the one armed when the pass was started, also when arm() is called with
\* another index while the tape is rolling.
C39_WriteTargetNotPlayed ==
  [][ /\ ( armedTrack' >= 0 /\ transport' = "play" /\ punchInTapeFrame' >= 0 )
         => ~IsSome(tracks'[armedTrack' + 1].sourceNode)
      /\ ( call'.op = "handleSamples" /\ messages' = messages
           /\ call'.wrote # <<>> )
         => ~IsSome(tracks[call'.wrote[1] + 1].sourceNode) ]_vars

\* C40: the tape time carried by a Stop event is the current frame minus
\* the tapeZeroFrame of the mapping active when stop() was called; a stop()
\* issued while the tape is not rolling reports no tape time computed from
\* the sentinel -1 that stands for 'no mapping'.
C40_StopEventTapeTime ==
  [][ ( call'.stopped /\ messages' = messages )
        => \A k \in DOMAIN call'.events :
             /\ call'.events[k].event.action = "stop"
             /\ transport = "play"
                  => call'.events[k].event.tapeTimeH
                       = 2 * (clock - tapeZeroFrame)
             /\ transport # "play"
                  => call'.events[k].event.tapeTimeH # 2 * (clock - (-1))
    ]_vars
====
